---- MODULE Spec2Model ----
(***************************************************************************)
(* Model of Pricelist.py: the upload -> validate -> transform -> archive   *)
(* script of the Pricelist File Generator (variant 1, no RM mapping).      *)
(*                                                                         *)
(* One run of the script is one behaviour.  The uploaded files are the     *)
(* inputs, chosen in Init; every block of the script is one action, and    *)
(* pc is the position in the script.                                       *)
(*                                                                         *)
(* Data representation                                                     *)
(*   string      a sequence of one-character strings                       *)
(*   cell        Str(s) for text, NaN for a missing cell / float nan,      *)
(*               Num(m, e) for the float  m * 10^(-e)                      *)
(*   DataFrame   [columns |-> sequence of names, rows |-> sequence of      *)
(*               functions from column name to cell]; the pandas index of  *)
(*               row i of a freshly read frame is i - 1                    *)
(* Floats are modelled as exact decimals; binary rounding error of the     *)
(* multiplication is not modelled.                                         *)
(***************************************************************************)
EXTENDS Integers, Sequences, FiniteSets, TLC

VARIABLES base_file, pricelist_file, df_base, df_pl, pc, errors, shown,
          success, df_out, zf, row_i, download, info

vars == <<base_file, pricelist_file, df_base, df_pl, pc, errors, shown,
          success, df_out, zf, row_i, download, info>>

(***************************************************************************)
(* Bounds of the model.                                                    *)
(***************************************************************************)
MaxBaseRows == 2
MaxFactorRows == 2
MaxLongRows == 6

(***************************************************************************)
(* Values.                                                                 *)
(***************************************************************************)
None == [none |-> TRUE]
NaN == [t |-> "nan"]
Str(s) == [t |-> "str", s |-> s]
Num(m, e) == [t |-> "num", m |-> m, e |-> e]
DataFrame(cols, rows) == [columns |-> cols, rows |-> rows]

Range(s) == {s[k] : k \in 1..Len(s)}

\* df.empty: TRUE when any axis has length 0
empty(df) == Len(df.columns) = 0 \/ Len(df.rows) = 0

\* Series.isna() on one cell
isna(c) == c.t = "nan"

\* Series.astype(str) on one cell: a missing cell becomes the text "nan"
astype_str(c) == IF c.t = "nan" THEN Str(<<"n", "a", "n">>) ELSE c

Whitespace == {" ", "\t"}

RECURSIVE lstrip(_)
lstrip(s) ==
    IF s # <<>> /\ Head(s) \in Whitespace THEN lstrip(Tail(s)) ELSE s

RECURSIVE rstrip(_)
rstrip(s) ==
    IF s # <<>> /\ s[Len(s)] \in Whitespace
    THEN rstrip(SubSeq(s, 1, Len(s) - 1)) ELSE s

\* Series.str.strip() on one cell
strip(c) == Str(rstrip(lstrip(c.s)))

(***************************************************************************)
(* pd.to_numeric(..., errors="coerce") on one cell, for plain decimal      *)
(* numerals  [-]digits[.digits] ; every other text is coerced to NaN.      *)
(***************************************************************************)
Digits == <<"0", "1", "2", "3", "4", "5", "6", "7", "8", "9">>

IsDigit(c) == c \in Range(Digits)

DigitValue(c) == (CHOOSE d \in 1..10 : Digits[d] = c) - 1

RECURSIVE DigitsValue(_)
DigitsValue(s) ==
    IF s = <<>> THEN 0
    ELSE DigitsValue(SubSeq(s, 1, Len(s) - 1)) * 10 + DigitValue(s[Len(s)])

Unsigned(s) == IF s # <<>> /\ s[1] = "-" THEN Tail(s) ELSE s

Sign(s) == IF s # <<>> /\ s[1] = "-" THEN -1 ELSE 1

DotPositions(s) == {k \in 1..Len(s) : s[k] = "."}

IntPart(s) ==
    IF DotPositions(s) = {} THEN s
    ELSE SubSeq(s, 1, (CHOOSE k \in DotPositions(s) : TRUE) - 1)

FracPart(s) ==
    IF DotPositions(s) = {} THEN <<>>
    ELSE SubSeq(s, (CHOOSE k \in DotPositions(s) : TRUE) + 1, Len(s))

IsNumeral(s) ==
    LET u == Unsigned(s) IN
    /\ Cardinality(DotPositions(u)) <= 1
    /\ \A k \in 1..Len(IntPart(u)) : IsDigit(IntPart(u)[k])
    /\ \A k \in 1..Len(FracPart(u)) : IsDigit(FracPart(u)[k])
    /\ Len(IntPart(u)) + Len(FracPart(u)) >= 1

to_numeric(c) ==
    IF c.t = "num" THEN c
    ELSE IF c.t = "str" /\ IsNumeral(c.s)
    THEN LET u == Unsigned(c.s) IN
         Num(Sign(c.s) * DigitsValue(IntPart(u) \o FracPart(u)), Len(FracPart(u)))
    ELSE NaN

(***************************************************************************)
(* Float arithmetic on exact decimals.                                     *)
(***************************************************************************)
RECURSIVE Pow10(_)
Pow10(n) == IF n = 0 THEN 1 ELSE 10 * Pow10(n - 1)

\* BasePrice * factor
Mul(a, b) == Num(a.m * b.m, a.e + b.e)

\* Series.round(d): numpy rounds to the nearest, ties to the even digit
Round(x, d) ==
    IF x.e <= d THEN Num(x.m * Pow10(d - x.e), d)
    ELSE LET q == Pow10(x.e - d)
             r == x.m % q
             f == (x.m - r) \div q
         IN  IF 2 * r > q THEN Num(f + 1, d)
             ELSE IF 2 * r < q THEN Num(f, d)
             ELSE IF f % 2 = 0 THEN Num(f, d) ELSE Num(f + 1, d)

\* Factor <= 0
NonPositive(x) == x.m <= 0

(***************************************************************************)
(* DataFrame operations used by the script.                                *)
(***************************************************************************)
\* indexes (1-based positions) of the rows selected by a mask, in row order
RECURSIVE MaskedIndexes(_, _, _)
MaskedIndexes(df, col, k) ==
    IF k > Len(df.rows) THEN <<>>
    ELSE (IF isna(df.rows[k][col]) THEN <<k>> ELSE <<>>)
         \o MaskedIndexes(df, col, k + 1)

SampleSize == 5

\* .head(5) on a sequence of rows
head(rows) ==
    SubSeq(rows, 1, IF Len(rows) < SampleSize THEN Len(rows) ELSE SampleSize)

\* the rows of a frame with their index labels
Labelled(df) == [k \in 1..Len(df.rows) |-> [index |-> k - 1, row |-> df.rows[k]]]

\* variant of NaSample: the sample is not cut to its first rows
NaSample_NoHead(df, col) ==
    LET idx == MaskedIndexes(df, col, 1)
    IN  [k \in 1..Len(idx) |-> Labelled(df)[idx[k]]]

\* df[df[col].isna()].head(5): the selected rows with their index labels
NaSample(df, col) ==
    LET idx == MaskedIndexes(df, col, 1)
    IN  head([k \in 1..Len(idx) |-> Labelled(df)[idx[k]]])

\* [c for c in required_cols if c not in df.columns]
missing(df, required_cols) ==
    SelectSeq(required_cols, LAMBDA c : c \notin Range(df.columns))

\* read_file: the parsed table, or None when parsing raised
read_file(uploaded_file) ==
    IF uploaded_file.wellformed THEN uploaded_file.table ELSE None

\* variant of Transform: rows repeating an earlier SKU are dropped
Transform_DropDuplicates(df, factor) ==
    LET keep == SelectSeq([k \in 1..Len(df.rows) |-> k],
                          LAMBDA k : \A j \in 1..(k - 1) :
                                        df.rows[j]["SKU"] # df.rows[k]["SKU"])
    IN  DataFrame(<<"SKU", "NewPrice">>,
                  [k \in 1..Len(keep) |->
                      [SKU |-> df.rows[keep[k]]["SKU"],
                       NewPrice |-> Round(Mul(df.rows[keep[k]]["BasePrice"], factor), 2)]])

\* df_out = df_base.copy(); df_out["NewPrice"] = (df_out["BasePrice"] * factor).round(2)
\* df_out = df_out[["SKU", "NewPrice"]]
Transform(df, factor) ==
    DataFrame(<<"SKU", "NewPrice">>,
              [k \in 1..Len(df.rows) |->
                  [SKU |-> df.rows[k]["SKU"],
                   NewPrice |-> Round(Mul(df.rows[k]["BasePrice"], factor), 2)]])

\* df_out.to_csv(csv_buffer, index=False): a header record and one record
\* per row, fields in column order, no index column
to_csv(df) ==
    [header |-> df.columns,
     records |-> [k \in 1..Len(df.rows) |->
                    [j \in 1..Len(df.columns) |-> df.rows[k][df.columns[j]]]]]

\* f"{pricelist_name}.csv"
FileName(pricelist_name) == pricelist_name.s \o <<".", "c", "s", "v">>

\* variant of writestr: a member of the same name is replaced
writestr_Overwrite(archive, filename, data) ==
    IF \E k \in 1..Len(archive) : archive[k].filename = filename
    THEN [k \in 1..Len(archive) |->
            IF archive[k].filename = filename
            THEN [filename |-> filename, data |-> data] ELSE archive[k]]
    ELSE Append(archive, [filename |-> filename, data |-> data])

\* ZipFile.writestr: a new member is appended to the archive; a member that
\* already has this name is kept (zipfile only warns "Duplicate name")
writestr(archive, filename, data) ==
    Append(archive, [filename |-> filename, data |-> data])

\* st.error(...): one diagnostic
Error(id, cols) == [id |-> id, columns |-> cols]

\* st.dataframe(...): one displayed table
Shown(what, rows) == [what |-> what, rows |-> rows]

(***************************************************************************)
(* Inputs: the two uploaded files.                                         *)
(***************************************************************************)
File(table) == [uploaded |-> TRUE, wellformed |-> TRUE, table |-> table]
Unreadable == [uploaded |-> TRUE, wellformed |-> FALSE, table |-> DataFrame(<<>>, <<>>)]
NoFile == [uploaded |-> FALSE, wellformed |-> FALSE, table |-> DataFrame(<<>>, <<>>)]

SeqsUpTo(S, n) == UNION {[1..k -> S] : k \in 0..n}

BaseRow(sku, price) == [SKU |-> sku, BasePrice |-> price]
FactorRow(name, factor) == [PricelistName |-> name, Factor |-> factor]

GoodBaseRow == BaseRow(Str(<<"A">>), Str(<<"0", ".", "2", "5">>))
BadPriceRow == BaseRow(Str(<<"A">>), Str(<<"x">>))
GoodFactorRow == FactorRow(Str(<<"P">>), Str(<<"0", ".", "5">>))
BadFactorRow == FactorRow(Str(<<"P">>), Str(<<"x">>))

BaseRowTypes ==
    { GoodBaseRow,
      BaseRow(Str(<<" ", "B", " ">>), Str(<<"1", ".", "5">>)),
      BaseRow(Str(<<" ">>), Str(<<"0", ".", "2", "5">>)),
      BaseRow(NaN, Str(<<"1", ".", "5">>)),
      BadPriceRow }

FactorRowTypes ==
    { GoodFactorRow,
      FactorRow(Str(<<" ", "P">>), Str(<<"2">>)),
      FactorRow(Str(<<"Q">>), Str(<<"2">>)),
      FactorRow(Str(<<" ">>), Str(<<"0", ".", "5">>)),
      BadFactorRow,
      FactorRow(Str(<<"Q">>), Str(<<"0">>)),
      FactorRow(Str(<<"P">>), Str(<<"-", "1">>)) }

BaseColumns == <<"SKU", "BasePrice">>
FactorColumns == <<"PricelistName", "Factor">>

BaseFiles(n) == {File(DataFrame(BaseColumns, rows)) : rows \in SeqsUpTo(BaseRowTypes, n)}
FactorFiles(n) == {File(DataFrame(FactorColumns, rows)) : rows \in SeqsUpTo(FactorRowTypes, n)}

\* files that were not uploaded, do not parse, or have other columns
BaseShapeFiles ==
    { NoFile, Unreadable,
      File(DataFrame(<<"SKU">>, <<>>)),
      File(DataFrame(<<"SKU">>, <<[SKU |-> Str(<<"A">>)]>>)),
      File(DataFrame(<<"BasePrice">>, <<[BasePrice |-> Str(<<"x">>)]>>)),
      File(DataFrame(<<"Price">>, <<[Price |-> Str(<<"1">>)]>>)),
      File(DataFrame(<<"Note", "BasePrice", "SKU">>,
                     <<[Note |-> Str(<<"n">>), BasePrice |-> Str(<<"0", ".", "2", "5">>),
                        SKU |-> Str(<<"A">>)]>>)) }

FactorShapeFiles ==
    { NoFile, Unreadable,
      File(DataFrame(<<"Factor">>, <<>>)),
      File(DataFrame(<<"PricelistName">>, <<[PricelistName |-> Str(<<" ">>)]>>)),
      File(DataFrame(<<"Factor">>, <<[Factor |-> Str(<<"0">>)]>>)),
      File(DataFrame(<<"Name">>, <<[Name |-> Str(<<"P">>)]>>)),
      File(DataFrame(<<"Factor", "Note", "PricelistName">>,
                     <<[Factor |-> Str(<<"0", ".", "5">>), Note |-> Str(<<"n">>),
                        PricelistName |-> Str(<<"P">>)]>>)) }

\* long tables, to exceed the size of the sample of bad rows
LongBaseFiles ==
    {File(DataFrame(BaseColumns, rows)) :
        rows \in SeqsUpTo({GoodBaseRow, BadPriceRow}, MaxLongRows)}
LongFactorFiles ==
    {File(DataFrame(FactorColumns, rows)) :
        rows \in SeqsUpTo({GoodFactorRow, BadFactorRow}, MaxLongRows)}

Init ==
    /\ \/ base_file \in BaseFiles(MaxBaseRows) /\ pricelist_file \in FactorFiles(MaxFactorRows)
       \/ base_file \in BaseShapeFiles /\ pricelist_file \in FactorShapeFiles \cup FactorFiles(1)
       \/ base_file \in BaseFiles(1) /\ pricelist_file \in FactorShapeFiles
       \/ base_file \in LongBaseFiles /\ pricelist_file \in FactorFiles(1)
       \/ base_file \in BaseFiles(1) /\ pricelist_file \in LongFactorFiles
    /\ df_base = None
    /\ df_pl = None
    /\ pc = "start"
    /\ errors = <<>>
    /\ shown = <<>>
    /\ success = FALSE
    /\ df_out = None
    /\ zf = <<>>
    /\ row_i = 1
    /\ download = None
    /\ info = None

Inputs == <<base_file, pricelist_file>>
Outputs == <<success, df_out, zf, row_i, download, info>>

\* st.error(...) [st.dataframe(bad_rows)] st.stop()
Stop(err, samples) ==
    /\ errors' = Append(errors, err)
    /\ shown' = shown \o samples
    /\ pc' = "stopped"

\* a check that passed
Pass(next) ==
    /\ pc' = next
    /\ UNCHANGED <<errors, shown>>

(***************************************************************************)
(* The script, block by block.                                             *)
(***************************************************************************)
\* if base_file and pricelist_file: df_base = read_file(...); df_pl = read_file(...)
ReadFiles ==
    /\ pc = "start"
    /\ IF base_file.uploaded /\ pricelist_file.uploaded
       THEN /\ df_base' = read_file(base_file)
            /\ df_pl' = read_file(pricelist_file)
            /\ pc' = "base_readable"
       ELSE /\ pc' = "done"
            /\ UNCHANGED <<df_base, df_pl>>
    /\ UNCHANGED <<Inputs, Outputs, errors, shown>>

CheckBaseReadable ==
    /\ pc = "base_readable"
    /\ IF df_base = None
       THEN Stop(Error("BaseUnreadable", <<>>), <<>>)
       ELSE Pass("pl_readable")
    /\ UNCHANGED <<Inputs, Outputs, df_base, df_pl>>

CheckFactorReadable ==
    /\ pc = "pl_readable"
    /\ IF df_pl = None
       THEN Stop(Error("FactorUnreadable", <<>>), <<>>)
       ELSE Pass("base_empty")
    /\ UNCHANGED <<Inputs, Outputs, df_base, df_pl>>

CheckBaseEmpty ==
    /\ pc = "base_empty"
    /\ IF empty(df_base)
       THEN Stop(Error("BaseEmpty", <<>>), <<>>)
       ELSE Pass("pl_empty")
    /\ UNCHANGED <<Inputs, Outputs, df_base, df_pl>>

CheckFactorEmpty ==
    /\ pc = "pl_empty"
    /\ IF empty(df_pl)
       THEN Stop(Error("FactorEmpty", <<>>), <<>>)
       ELSE Pass("base_columns")
    /\ UNCHANGED <<Inputs, Outputs, df_base, df_pl>>

\* validate_required_columns(df, required_cols, file_label) and the st.stop()
\* of its caller
validate_required_columns(df, required_cols, file_label, next) ==
    IF missing(df, required_cols) # <<>>
    THEN Stop(Error(file_label, missing(df, required_cols)), <<>>)
    ELSE Pass(next)

CheckBaseColumns ==
    /\ pc = "base_columns"
    /\ validate_required_columns(df_base, BaseColumns, "BaseMissingColumns", "pl_columns")
    /\ UNCHANGED <<Inputs, Outputs, df_base, df_pl>>

CheckFactorColumns ==
    /\ pc = "pl_columns"
    /\ validate_required_columns(df_pl, FactorColumns, "FactorMissingColumns", "strip")
    /\ UNCHANGED <<Inputs, Outputs, df_base, df_pl>>

\* df_base["SKU"] = df_base["SKU"].astype(str).str.strip(), same for PricelistName
StripKey(c) == strip(astype_str(c))

\* df[col] = df[col].astype(str).str.strip()
StripColumn(df, col) ==
    DataFrame(df.columns,
              [k \in 1..Len(df.rows) |->
                  [df.rows[k] EXCEPT ![col] = StripKey(df.rows[k][col])]])

StripKeys ==
    /\ pc = "strip"
    /\ df_base' = StripColumn(df_base, "SKU")
    /\ df_pl' = StripColumn(df_pl, "PricelistName")
    /\ pc' = "sku_blank"
    /\ UNCHANGED <<Inputs, Outputs, errors, shown>>

\* (df[col] == "").any()
AnyBlank(df, col) == \E k \in 1..Len(df.rows) : df.rows[k][col] = Str(<<>>)

CheckBlankSKU ==
    /\ pc = "sku_blank"
    /\ IF AnyBlank(df_base, "SKU")
       THEN Stop(Error("BlankSKU", <<>>), <<>>)
       ELSE Pass("pl_blank")
    /\ UNCHANGED <<Inputs, Outputs, df_base, df_pl>>

CheckBlankPricelistName ==
    /\ pc = "pl_blank"
    /\ IF AnyBlank(df_pl, "PricelistName")
       THEN Stop(Error("BlankPricelistName", <<>>), <<>>)
       ELSE Pass("to_numeric")
    /\ UNCHANGED <<Inputs, Outputs, df_base, df_pl>>

\* df[col] = pd.to_numeric(df[col], errors="coerce")
NumericColumn(df, col) ==
    DataFrame(df.columns,
              [k \in 1..Len(df.rows) |->
                  [df.rows[k] EXCEPT ![col] = to_numeric(df.rows[k][col])]])

NumericConversion ==
    /\ pc = "to_numeric"
    /\ df_base' = NumericColumn(df_base, "BasePrice")
    /\ df_pl' = NumericColumn(df_pl, "Factor")
    /\ pc' = "baseprice_numeric"
    /\ UNCHANGED <<Inputs, Outputs, errors, shown>>

\* df[col].isna().any()
AnyNa(df, col) == \E k \in 1..Len(df.rows) : isna(df.rows[k][col])

\* variant of CheckBasePriceNumeric: the check is not made
CheckBasePriceNumeric_Skipped ==
    /\ pc = "baseprice_numeric"
    /\ Pass("factor_numeric")
    /\ UNCHANGED <<Inputs, Outputs, df_base, df_pl>>

CheckBasePriceNumeric ==
    /\ pc = "baseprice_numeric"
    /\ IF AnyNa(df_base, "BasePrice")
       THEN Stop(Error("BasePriceNotNumeric", <<"BasePrice">>),
                 <<Shown("bad_rows", NaSample(df_base, "BasePrice"))>>)
       ELSE Pass("factor_numeric")
    /\ UNCHANGED <<Inputs, Outputs, df_base, df_pl>>

CheckFactorNumeric ==
    /\ pc = "factor_numeric"
    /\ IF AnyNa(df_pl, "Factor")
       THEN Stop(Error("FactorNotNumeric", <<"Factor">>),
                 <<Shown("bad_rows", NaSample(df_pl, "Factor"))>>)
       ELSE Pass("factor_positive")
    /\ UNCHANGED <<Inputs, Outputs, df_base, df_pl>>

\* variant of AnyNonPositive: .all() instead of .any()
AllNonPositive(df, col) == \A k \in 1..Len(df.rows) : NonPositive(df.rows[k][col])

\* (df_pl["Factor"] <= 0).any()
AnyNonPositive(df, col) == \E k \in 1..Len(df.rows) : NonPositive(df.rows[k][col])

\* variant of CheckFactorPositive: the error is shown without st.stop()
CheckFactorPositive_NoStop ==
    /\ pc = "factor_positive"
    /\ IF AnyNonPositive(df_pl, "Factor")
       THEN /\ errors' = Append(errors, Error("FactorNotPositive", <<>>))
            /\ pc' = "preview"
            /\ UNCHANGED shown
       ELSE Pass("preview")
    /\ UNCHANGED <<Inputs, Outputs, df_base, df_pl>>

CheckFactorPositive ==
    /\ pc = "factor_positive"
    /\ IF AnyNonPositive(df_pl, "Factor")
       THEN Stop(Error("FactorNotPositive", <<>>), <<>>)
       ELSE Pass("preview")
    /\ UNCHANGED <<Inputs, Outputs, df_base, df_pl>>

\* previews, st.success(...), zip_buffer = io.BytesIO(), ZipFile(zip_buffer, "w")
Preview ==
    /\ pc = "preview"
    /\ shown' = shown \o <<Shown("preview_base", head(Labelled(df_base))),
                           Shown("preview_pl", head(Labelled(df_pl)))>>
    /\ success' = TRUE
    /\ zf' = <<>>
    /\ row_i' = 1
    /\ pc' = "loop"
    /\ UNCHANGED <<Inputs, df_base, df_pl, errors, df_out, download, info>>

\* variant of GenerateOne: the prices are written back into df_base
GenerateOne_InPlace ==
    /\ pc = "loop"
    /\ row_i <= Len(df_pl.rows)
    /\ LET row == df_pl.rows[row_i]
           out == Transform(df_base, row["Factor"])
       IN  /\ df_out' = out
           /\ zf' = writestr(zf, FileName(row["PricelistName"]), to_csv(out))
           /\ df_base' = DataFrame(df_base.columns,
                             [k \in 1..Len(df_base.rows) |->
                                 [df_base.rows[k] EXCEPT
                                     !["BasePrice"] = out.rows[k]["NewPrice"]]])
    /\ row_i' = row_i + 1
    /\ UNCHANGED <<Inputs, df_pl, pc, errors, shown, success, download, info>>

\* variant of GenerateOne: a table is computed once per PricelistName and reused
GenerateOne_CachedByName ==
    /\ pc = "loop"
    /\ row_i <= Len(df_pl.rows)
    /\ LET pricelist_name == df_pl.rows[row_i]["PricelistName"]
           first == CHOOSE k \in 1..row_i :
                       /\ df_pl.rows[k]["PricelistName"] = pricelist_name
                       /\ \A j \in 1..(k - 1) :
                             df_pl.rows[j]["PricelistName"] # pricelist_name
           out == Transform(df_base, df_pl.rows[first]["Factor"])
       IN  /\ df_out' = out
           /\ zf' = writestr(zf, FileName(pricelist_name), to_csv(out))
    /\ row_i' = row_i + 1
    /\ UNCHANGED <<Inputs, df_base, df_pl, pc, errors, shown, success, download, info>>

\* one iteration of  for _, row in df_pl.iterrows()
GenerateOne ==
    /\ pc = "loop"
    /\ row_i <= Len(df_pl.rows)
    /\ LET row == df_pl.rows[row_i]
           pricelist_name == row["PricelistName"]
           factor == row["Factor"]
           out == Transform(df_base, factor)
       IN  /\ df_out' = out
           /\ zf' = writestr(zf, FileName(pricelist_name), to_csv(out))
    /\ row_i' = row_i + 1
    /\ UNCHANGED <<Inputs, df_base, df_pl, pc, errors, shown, success, download, info>>

\* the loop is exhausted: zip_buffer.seek(0); st.download_button(...)
DownloadButton ==
    /\ pc = "loop"
    /\ row_i > Len(df_pl.rows)
    /\ download' = [data |-> zf, file_name |-> "generated_pricelists.zip",
                    mime |-> "application/zip"]
    /\ pc' = "info"
    /\ UNCHANGED <<Inputs, df_base, df_pl, errors, shown, success, df_out, zf, row_i, info>>

\* variant of Info: the count of distinct pricelist names is reported
Info_DistinctNames ==
    /\ pc = "info"
    /\ info' = [count |-> Cardinality({df_pl.rows[k]["PricelistName"] :
                                          k \in 1..Len(df_pl.rows)})]
    /\ pc' = "done"
    /\ UNCHANGED <<Inputs, df_base, df_pl, errors, shown, success, df_out, zf, row_i, download>>

\* st.info(f"Generated {len(df_pl)} pricelist files successfully.")
Info ==
    /\ pc = "info"
    /\ info' = [count |-> Len(df_pl.rows)]
    /\ pc' = "done"
    /\ UNCHANGED <<Inputs, df_base, df_pl, errors, shown, success, df_out, zf, row_i, download>>

Next ==
    \/ ReadFiles
    \/ CheckBaseReadable
    \/ CheckFactorReadable
    \/ CheckBaseEmpty
    \/ CheckFactorEmpty
    \/ CheckBaseColumns
    \/ CheckFactorColumns
    \/ StripKeys
    \/ CheckBlankSKU
    \/ CheckBlankPricelistName
    \/ NumericConversion
    \/ CheckBasePriceNumeric
    \/ CheckFactorNumeric
    \/ CheckFactorPositive
    \/ Preview
    \/ GenerateOne
    \/ DownloadButton
    \/ Info

Spec == Init /\ [][Next]_vars

TypeOK ==
    /\ pc \in {"start", "base_readable", "pl_readable", "base_empty", "pl_empty",
               "base_columns", "pl_columns", "strip", "sku_blank", "pl_blank",
               "to_numeric", "baseprice_numeric", "factor_numeric", "factor_positive",
               "preview", "loop", "info", "done", "stopped"}
    /\ success \in BOOLEAN
    /\ row_i \in 1..(MaxLongRows + MaxFactorRows + 1)

(***************************************************************************)
(* The uploaded tables as they were uploaded, and what the properties say  *)
(* about them.                                                             *)
(***************************************************************************)
RawBase == base_file.table.rows
RawFactor == pricelist_file.table.rows

Ran == base_file.uploaded /\ pricelist_file.uploaded
Finished == pc \in {"done", "stopped"}
Generating == pc \in {"loop", "info", "done"} /\ success

HasColumn(file, col) == file.wellformed /\ col \in Range(file.table.columns)

\* a text cell that is empty or holds only whitespace
IsBlankText(c) == c.t = "str" /\ \A k \in 1..Len(c.s) : c.s[k] \in Whitespace

\* a key cell that is missing, empty or holds only whitespace
IsBlankKey(c) == isna(c) \/ IsBlankText(c)

\* the index labels of the rows of an uploaded file, when it has the column
RowLabels(file, col) ==
    IF HasColumn(file, col) THEN 0..(Len(file.table.rows) - 1) ELSE {}

Cell(file, col, label) == file.table.rows[label + 1][col]

\* the index labels of the offending rows of each cell-level check
BlankTextSKUs == {r \in RowLabels(base_file, "SKU") : IsBlankText(Cell(base_file, "SKU", r))}
BlankTextNames ==
    {r \in RowLabels(pricelist_file, "PricelistName") :
        IsBlankText(Cell(pricelist_file, "PricelistName", r))}
BlankSKUs == {r \in RowLabels(base_file, "SKU") : IsBlankKey(Cell(base_file, "SKU", r))}
BlankNames ==
    {r \in RowLabels(pricelist_file, "PricelistName") :
        IsBlankKey(Cell(pricelist_file, "PricelistName", r))}

IsNotNumeric(c) == isna(to_numeric(c))
IsNotPositive(c) == ~isna(to_numeric(c)) /\ to_numeric(c).m <= 0

NonNumericPrices ==
    {r \in RowLabels(base_file, "BasePrice") : IsNotNumeric(Cell(base_file, "BasePrice", r))}
NonNumericFactors ==
    {r \in RowLabels(pricelist_file, "Factor") :
        IsNotNumeric(Cell(pricelist_file, "Factor", r))}
NonPositiveFactors ==
    {r \in RowLabels(pricelist_file, "Factor") :
        IsNotPositive(Cell(pricelist_file, "Factor", r))}

\* the checks in the order of the validation sequence, by their diagnostic
CheckOrder ==
    <<"BaseUnreadable", "FactorUnreadable", "BaseEmpty", "FactorEmpty",
      "BaseMissingColumns", "FactorMissingColumns", "BlankSKU", "BlankPricelistName",
      "BasePriceNotNumeric", "FactorNotNumeric", "FactorNotPositive">>

\* the uploaded files violate the n-th check
Violates(n) ==
    CASE n = 1 -> ~base_file.wellformed
      [] n = 2 -> ~pricelist_file.wellformed
      [] n = 3 -> base_file.wellformed /\ Len(RawBase) = 0
      [] n = 4 -> pricelist_file.wellformed /\ Len(RawFactor) = 0
      [] n = 5 -> base_file.wellformed
                  /\ ~(HasColumn(base_file, "SKU") /\ HasColumn(base_file, "BasePrice"))
      [] n = 6 -> pricelist_file.wellformed
                  /\ ~(HasColumn(pricelist_file, "PricelistName")
                       /\ HasColumn(pricelist_file, "Factor"))
      [] n = 7 -> BlankTextSKUs # {}
      [] n = 8 -> BlankTextNames # {}
      [] n = 9 -> NonNumericPrices # {}
      [] n = 10 -> NonNumericFactors # {}
      [] n = 11 -> NonPositiveFactors # {}

ViolatedChecks == {n \in 1..Len(CheckOrder) : Violates(n)}

FirstViolated == CHOOSE n \in ViolatedChecks : \A m \in ViolatedChecks : n <= m

NothingProduced ==
    /\ ~success
    /\ df_out = None
    /\ zf = <<>>
    /\ download = None
    /\ info = None

\* C1: once a check has failed (a diagnostic was emitted), the run is halted
\* and has produced nothing: no validation-success message, no transformed
\* table, no archive entry, no download and no count of generated files.
C1_FailureIsTerminal ==
    (errors # <<>> \/ pc = "stopped") =>
        /\ pc = "stopped"
        /\ errors # <<>>
        /\ NothingProduced

C1_Witness ==
    /\ pc = "stopped"
    /\ Len(RawBase) = 2
    /\ Len(RawFactor) = 2
    /\ errors = <<Error("FactorNotNumeric", <<"Factor">>)>>

\* C2: at most one diagnostic is ever emitted, and a finished run reports the
\* diagnostic of the earliest check, in the validation sequence, that the
\* uploaded files violate (none when they violate no check).
C2_FirstFailureOnly ==
    /\ Len(errors) <= 1
    /\ (Ran /\ Finished) =>
          IF ViolatedChecks = {}
          THEN errors = <<>> /\ pc = "done"
          ELSE /\ Len(errors) = 1
               /\ errors[1].id = CheckOrder[FirstViolated]
               /\ pc = "stopped"

C2_Witness ==
    /\ pc = "stopped"
    /\ Cardinality(ViolatedChecks) >= 4
    /\ {7, 8} \subseteq ViolatedChecks
    /\ errors = <<Error("BlankSKU", <<>>)>>

\* the trimmed PricelistName of the Factor rows
TrimmedNames == {StripKey(RawFactor[k]["PricelistName"]) : k \in 1..Len(RawFactor)}

RowsNamed(name) ==
    {k \in 1..Len(RawFactor) : StripKey(RawFactor[k]["PricelistName"]) = name}

EntriesNamed(archive, name) ==
    {k \in 1..Len(archive) : archive[k].filename = FileName(name)}

HasDuplicateNames == \E name \in TrimmedNames : Cardinality(RowsNamed(name)) >= 2

\* the table a Factor row must produce, computed from the uploaded tables
ExpectedTable(j) ==
    [header |-> <<"SKU", "NewPrice">>,
     records |-> [k \in 1..Len(RawBase) |->
                    <<StripKey(RawBase[k]["SKU"]),
                      Round(Mul(to_numeric(RawBase[k]["BasePrice"]),
                                to_numeric(RawFactor[j]["Factor"])), 2)>>]]

Max(S) == CHOOSE n \in S : \A m \in S : m <= n

C5_RowPerBaseRow ==
    /\ df_out # None =>
          /\ df_out.columns = <<"SKU", "NewPrice">>
          /\ Len(df_out.rows) = Len(RawBase)
          /\ \A i \in 1..Len(RawBase) :
                /\ DOMAIN df_out.rows[i] = {"SKU", "NewPrice"}
                /\ df_out.rows[i]["SKU"] = StripKey(RawBase[i]["SKU"])
    /\ \A k \in 1..Len(zf) :
          /\ zf[k].data.header = <<"SKU", "NewPrice">>
          /\ Len(zf[k].data.records) = Len(RawBase)
          /\ \A i \in 1..Len(RawBase) :
                /\ Len(zf[k].data.records[i]) = 2
                /\ zf[k].data.records[i][1] = StripKey(RawBase[i]["SKU"])

C5_Witness ==
    /\ Len(zf) >= 1
    /\ Len(RawBase) = 2
    /\ zf[1].data.records[1][1] # zf[1].data.records[2][1]

\* C6: the NewPrice of row i in the file of Factor row k is
\* round(BasePrice_i * Factor_k, 2) of the uploaded values, and generating
\* files leaves the numeric base prices as uploaded.
C6_NewPriceFromOriginalBase ==
    /\ \A k \in 1..Len(zf) : \A i \in 1..Len(RawBase) :
          zf[k].data.records[i][2]
             = Round(Mul(to_numeric(RawBase[i]["BasePrice"]),
                         to_numeric(RawFactor[k]["Factor"])), 2)
    /\ Generating =>
          \A i \in 1..Len(RawBase) :
             df_base.rows[i]["BasePrice"] = to_numeric(RawBase[i]["BasePrice"])

C6_Witness ==
    /\ Len(zf) = 2
    /\ Len(RawBase) = 2
    /\ RawFactor[1]["Factor"] # RawFactor[2]["Factor"]
    /\ zf[1].data.records[1][2] = Num(12, 2)
    /\ zf[2].data.records[1][2] = Num(50, 2)

\* C7: when the first ten checks pass and some Factor is 0 or negative, the
\* run ends with the Factor-must-be-greater-than-0 error and nothing is
\* transformed; whenever files are being generated every Factor is > 0.
C7_FactorMustBePositive ==
    /\ (Ran /\ Finished /\ ViolatedChecks \cap 1..10 = {}
            /\ NonPositiveFactors # {}) =>
          /\ errors = <<Error("FactorNotPositive", <<>>)>>
          /\ NothingProduced
    /\ (Generating \/ df_out # None \/ zf # <<>>) =>
          \A k \in 1..Len(RawFactor) :
             /\ to_numeric(RawFactor[k]["Factor"]).m > 0
             /\ df_pl.rows[k]["Factor"].m > 0

C7_Witness ==
    /\ pc = "stopped"
    /\ errors = <<Error("FactorNotPositive", <<>>)>>
    /\ Len(RawFactor) = 2
    /\ \E k \in 1..2 : to_numeric(RawFactor[k]["Factor"]).m > 0

\* C8: when the first six checks pass and some SKU or PricelistName is
\* missing, empty or only whitespace, the run ends with the blank-key error;
\* so no file is generated from a table with such a key.
C8_BlankKeyHalts ==
    /\ (Ran /\ Finished /\ ViolatedChecks \cap 1..6 = {}
            /\ (BlankSKUs # {} \/ BlankNames # {})) =>
          /\ Len(errors) = 1
          /\ errors[1].id \in {"BlankSKU", "BlankPricelistName"}
    /\ Generating =>
          /\ BlankSKUs = {}
          /\ BlankNames = {}

DataQualityErrors ==
    {"BlankSKU", "BlankPricelistName", "BasePriceNotNumeric", "FactorNotNumeric",
     "FactorNotPositive"}

\* S is made of the n smallest elements of T (of all of T when it has fewer)
IsFirstOf(S, T, n) ==
    /\ S \subseteq T
    /\ Cardinality(S) = (IF Cardinality(T) < n THEN Cardinality(T) ELSE n)
    /\ \A a \in S : \A b \in T \ S : a < b

\* the displayed sample holds the first (at most 5) rows of T, in row order
IsSampleOf(sample, T) ==
    /\ Len(sample) <= 5
    /\ IsFirstOf({sample[k].index : k \in 1..Len(sample)}, T, 5)
    /\ \A k \in 1..Len(sample) : \A j \in 1..Len(sample) :
          k < j => sample[k].index < sample[j].index

OffendingOf(id) ==
    CASE id = "BlankSKU" -> BlankTextSKUs
      [] id = "BlankPricelistName" -> BlankTextNames
      [] id = "BasePriceNotNumeric" -> NonNumericPrices
      [] id = "FactorNotNumeric" -> NonNumericFactors
      [] id = "FactorNotPositive" -> NonPositiveFactors

\* C9 as stated: every data-quality failure shows a sample of the first (at
\* most 5) offending rows.
C9_EveryDataQualityErrorHasSample ==
    \A e \in 1..Len(errors) :
        errors[e].id \in DataQualityErrors =>
            /\ Len(shown) = 1
            /\ shown[1].what = "bad_rows"
            /\ IsSampleOf(shown[1].rows, OffendingOf(errors[e].id))

\* C9: a numeric-coercion failure names the offending column and shows a
\* sample of the first (at most 5) offending rows, in row order; a blank-key
\* or non-positive-Factor failure shows no sample.
C9_NumericErrorHasSample ==
    \A e \in 1..Len(errors) :
        errors[e].id \in DataQualityErrors =>
            IF errors[e].id \in {"BasePriceNotNumeric", "FactorNotNumeric"}
            THEN /\ Len(shown) = 1
                 /\ shown[1].what = "bad_rows"
                 /\ IsSampleOf(shown[1].rows, OffendingOf(errors[e].id))
                 /\ errors[e].columns =
                       <<IF errors[e].id = "BasePriceNotNumeric"
                         THEN "BasePrice" ELSE "Factor">>
            ELSE shown = <<>>

C9_Witness ==
    /\ pc = "stopped"
    /\ errors = <<Error("BasePriceNotNumeric", <<"BasePrice">>)>>
    /\ Cardinality(NonNumericPrices) > 5
    /\ Len(shown[1].rows) = 5

\* C10: the reported count of generated files is the number of entries of
\* the offered archive, and it is reported only when every Factor row has
\* been processed and the archive has been offered.
C10_CountEqualsEntries ==
    info # None =>
        /\ download # None
        /\ info.count = Len(download.data)
        /\ download.data = zf
        /\ Len(zf) = Len(RawFactor)
        /\ row_i > Len(df_pl.rows)
        /\ pc = "done"

C10_Witness ==
    /\ info # None
    /\ info.count = 2
    /\ HasDuplicateNames
====
